---- MODULE Spec2Model ----
(***************************************************************************)
(* mongo-atlas-billing-exporter: State::get_metrics (src/src/state.rs).    *)
(*                                                                         *)
(* One call of get_metrics: the GET of the pending invoice, the decoding   *)
(* of its body, the aggregation loop over the line items into map_total    *)
(* and map_rate, and the recording of the gauges.                          *)
(*                                                                         *)
(* Strings that the code concatenates, compares or parses (cluster_name,   *)
(* sku, group_name, end_date, the map keys) are sequences of one-character *)
(* strings; unit is only tested for equality and is a TLA+ string.         *)
(* quantity (f64) ranges over non-negative integers, on which f64 addition *)
(* is exact; total_price_cents (u64) stays far below 2^64.  The f64 values *)
(* handed to the gauges are exact fractions, +inf or NaN (the rounding of  *)
(* a division is not modelled).  Instants are seconds since 1970-01-01.    *)
(***************************************************************************)
EXTENDS Integers, Sequences, FiniteSets, TLC

VARIABLES
    pc,          \* position in get_metrics: "get", "body", "loop", "done"
    response,    \* <<>> or <<status>>: the status of the response to the GET
    result,      \* <<>> while running, else <<"Ok">> or <<error variant>>
    line_items,  \* data.line_items of the decoded invoice
    idx,         \* number of line items the for loop has consumed
    map_total,   \* HashMap<String, Compressed>
    map_rate,    \* HashMap<String, Compressed>
    clock,       \* the latest value Utc::now() has returned
    log,         \* the freshness records logged by the loop, one per item
    gauges       \* the metrics::gauge! calls made by this call

vars == <<pc, response, result, line_items, idx, map_total, map_rate, clock, log, gauges>>

-----------------------------------------------------------------------------
(* Bounds *)

MaxItems == 2

-----------------------------------------------------------------------------
(* Strings *)

Code ==
    ("+" :> 43) @@ ("-" :> 45) @@ ("0" :> 48) @@ ("1" :> 49) @@ ("2" :> 50) @@
    ("3" :> 51) @@ ("4" :> 52) @@ ("5" :> 53) @@ ("6" :> 54) @@ ("7" :> 55) @@
    ("8" :> 56) @@ ("9" :> 57) @@ (":" :> 58) @@ ("T" :> 84) @@ ("Z" :> 90) @@
    ("_" :> 95) @@ ("a" :> 97) @@ ("b" :> 98) @@ ("c" :> 99) @@ ("g" :> 103)

\* a < b for Rust Strings: byte-wise lexicographic, a proper prefix is smaller
RECURSIVE StrLess(_, _)
StrLess(a, b) ==
    IF b = <<>> THEN FALSE
    ELSE IF a = <<>> THEN TRUE
    ELSE IF Code[Head(a)] # Code[Head(b)] THEN Code[Head(a)] < Code[Head(b)]
    ELSE StrLess(Tail(a), Tail(b))

StrGreater(a, b) == StrLess(b, a)

\* Option<T>: None is <<>>, Some(v) is <<v>>
None == <<>>
Some(v) == <<v>>
UnwrapOr(o, d) == IF o = None THEN d ELSE o[1]

-----------------------------------------------------------------------------
(* chrono *)

IsDigit(c) == Code[c] \in 48..57
DigitVal(c) == Code[c] - 48
Num2(s, i) == DigitVal(s[i]) * 10 + DigitVal(s[i + 1])
Num4(s, i) == Num2(s, i) * 100 + Num2(s, i + 2)

IsLeap(y) == (y % 4 = 0 /\ y % 100 # 0) \/ y % 400 = 0

DaysInMonth(y, m) ==
    IF m = 2 THEN (IF IsLeap(y) THEN 29 ELSE 28)
    ELSE IF m \in {4, 6, 9, 11} THEN 30 ELSE 31

\* days from 1970-01-01 to the civil date y-m-d
DaysFromCivil(y, m, d) ==
    LET yy  == IF m <= 2 THEN y - 1 ELSE y
        era == yy \div 400
        yoe == yy - era * 400
        mp  == IF m > 2 THEN m - 3 ELSE m + 9
        doy == (153 * mp + 2) \div 5 + d - 1
        doe == yoe * 365 + yoe \div 4 - yoe \div 100 + doy
    IN  era * 146097 + doe - 719468

\* chrono::DateTime::parse_from_rfc3339 followed by with_timezone(&Utc), on
\* date-times without fractional seconds: None is Err, Some(t) is Ok with t
\* the instant in seconds
ParseFromRfc3339(s) ==
    IF Len(s) \notin {20, 25} THEN None
    ELSE IF ~ (\A i \in {1, 2, 3, 4, 6, 7, 9, 10, 12, 13, 15, 16, 18, 19} : IsDigit(s[i])) THEN None
    ELSE IF ~ (s[5] = "-" /\ s[8] = "-" /\ s[11] = "T" /\ s[14] = ":" /\ s[17] = ":") THEN None
    ELSE IF Len(s) = 20 /\ s[20] # "Z" THEN None
    ELSE IF Len(s) = 25 /\ ~ (s[20] \in {"+", "-"} /\ IsDigit(s[21]) /\ IsDigit(s[22])
                               /\ s[23] = ":" /\ IsDigit(s[24]) /\ IsDigit(s[25])) THEN None
    ELSE
        LET y   == Num4(s, 1)
            mo  == Num2(s, 6)
            d   == Num2(s, 9)
            h   == Num2(s, 12)
            mi  == Num2(s, 15)
            sec == Num2(s, 18)
            oh  == IF Len(s) = 25 THEN Num2(s, 21) ELSE 0
            om  == IF Len(s) = 25 THEN Num2(s, 24) ELSE 0
            off == (IF Len(s) = 25 /\ s[20] = "-" THEN -1 ELSE 1) * (oh * 3600 + om * 60)
        IN  IF mo \in 1..12 /\ d \in 1..DaysInMonth(y, mo) /\ h \in 0..23 /\ mi \in 0..59
               /\ sec \in 0..59 /\ oh \in 0..23 /\ om \in 0..59
            THEN Some(DaysFromCivil(y, mo, d) * 86400 + h * 3600 + mi * 60 + sec - off)
            ELSE None

\* chrono::Duration::hours(30), in hours and in seconds
FreshnessHours == 30
DurationHours(h) == h * 3600

-----------------------------------------------------------------------------
(* f64 values handed to the gauges *)

RECURSIVE Gcd(_, _)
Gcd(a, b) == IF b = 0 THEN a ELSE Gcd(b, a % b)

Finite(n, d) == LET g == Gcd(n, d) IN [kind |-> "finite", num |-> n \div g, den |-> d \div g]
Infinity == [kind |-> "inf", num |-> 1, den |-> 0]
NaN == [kind |-> "NaN", num |-> 0, den |-> 0]

\* u64 as f64, and an integer-valued f64
ToF64(n) == Finite(n, 1)

\* x / y on non-negative f64 values (IEEE 754: x/0 is +inf for x > 0, 0/0 is NaN)
F64Div(x, y) ==
    IF x.kind = "NaN" \/ y.kind = "NaN" THEN NaN
    ELSE IF x.kind = "inf" THEN (IF y.kind = "inf" THEN NaN ELSE Infinity)
    ELSE IF y.kind = "inf" THEN ToF64(0)
    ELSE IF y.num = 0 THEN (IF x.num = 0 THEN NaN ELSE Infinity)
    ELSE Finite(x.num * y.den, x.den * y.num)

-----------------------------------------------------------------------------
(* Inputs: the answers of the Atlas API and the readings of the clock *)

Statuses == {200, 204, 401, 403, 404, 500}

D1 == <<"2","0","2","2","-","0","3","-","0","2","T","0","0",":","0","0",":","0","0","Z">>
\* one hour after D1, written with a -02:00 offset: smaller than D1 as a string
D2 == <<"2","0","2","2","-","0","3","-","0","1","T","2","3",":","0","0",":","0","0","-","0","2",":","0","0">>
\* a date without a time: not RFC 3339
D3 == <<"2","0","2","2","-","0","3","-","0","2">>

EndDates == {D1, D2, D3}

LineItem(cluster, group, sku, unit, price, qty, cents, end) ==
    [cluster_name |-> cluster, group_name |-> group, sku |-> sku, unit |-> unit,
     unit_price_dollars |-> price, quantity |-> qty, total_price_cents |-> cents,
     end_date |-> end]

\* created and start_date of a LineItem are never read and are left out
Pool ==
    { LineItem(n[1], v[1], n[2], v[2], v[3], v[4], v[5], e) :
        n \in { <<None, <<"a","_","b">> >>, <<Some(<<"a">>), <<"b">> >>, <<Some(<<"a">>), <<"c">> >> },
        v \in { <<None, "GB hours", 1, 10, 2400>>, <<Some(<<"g">>), "daily", 2, 10, 2400>> },
        e \in EndDates }
    \cup
    { LineItem(Some(<<"a">>), None, <<"c">>, "server hours", 3, 5, 500, D1),
      LineItem(Some(<<"a">>), None, <<"c">>, "server hours", 3, 0, 300, D1),
      LineItem(None, None, <<"c">>, "GB hours", 1, 0, 0, D2) }

Invoices == UNION { [1..n -> Pool] : n \in 0..MaxItems }

Instant(s) == ParseFromRfc3339(s)[1]

\* the instants at which Utc::now() is read: one second before D1 is 30 hours
\* old, the second at which it is, and the second at which D2 is
Ticks ==
    { Instant(D1) + DurationHours(FreshnessHours) - 1,
      Instant(D1) + DurationHours(FreshnessHours),
      Instant(D2) + DurationHours(FreshnessHours) }

-----------------------------------------------------------------------------
(* State::get *)

\* variant: the arms for 403 and 401 exchanged
StatusResult_Exchanged(status) ==
    CASE status = 404 -> "NotFound"
      [] status = 403 -> "Unauthorized"
      [] status = 401 -> "Forbidden"
      [] status = 200 -> "Ok"
      [] OTHER -> "UnknownCode"

StatusResult(status) ==
    CASE status = 404 -> "NotFound"
      [] status = 403 -> "Forbidden"
      [] status = 401 -> "Unauthorized"
      [] status = 200 -> "Ok"
      [] OTHER -> "UnknownCode"

-----------------------------------------------------------------------------
(* State::get_metrics: the aggregation loop *)

Name(item) ==
    IF item.cluster_name # None
    THEN item.cluster_name[1] \o <<"_">> \o item.sku
    ELSE item.sku

TotalInsert(item) ==
    [cluster_name |-> item.cluster_name, quantity |-> item.quantity, sku |-> item.sku,
     group_name |-> item.group_name, total_price_cents |-> item.total_price_cents,
     unit |-> item.unit, unit_price_dollars |-> item.unit_price_dollars,
     end_date |-> item.end_date]

\* variant: the quantity of the entry is overwritten by the item's
TotalMerge_Overwrite(k, item) ==
    [k EXCEPT !.total_price_cents = k.total_price_cents + item.total_price_cents,
              !.quantity = item.quantity,
              !.end_date = IF StrGreater(item.end_date, k.end_date) THEN item.end_date ELSE k.end_date]

\* variant: end_date is replaced on every merge
TotalMerge_LastEndDate(k, item) ==
    [k EXCEPT !.total_price_cents = k.total_price_cents + item.total_price_cents,
              !.quantity = k.quantity + item.quantity,
              !.end_date = item.end_date]

TotalMerge(k, item) ==
    [k EXCEPT !.total_price_cents = k.total_price_cents + item.total_price_cents,
              !.quantity = k.quantity + item.quantity,
              !.end_date = IF StrGreater(item.end_date, k.end_date) THEN item.end_date ELSE k.end_date]

\* variant: map_total is keyed by the sku alone
AddTotal_BySku(m, name, item) ==
    IF item.sku \in DOMAIN m
    THEN [m EXCEPT ![item.sku] = TotalMerge(m[item.sku], item)]
    ELSE m @@ (item.sku :> TotalInsert(item))

\* map_total after the match on map_total.get_mut(&name)
AddTotal(m, name, item) ==
    IF name \in DOMAIN m
    THEN [m EXCEPT ![name] = TotalMerge(m[name], item)]
    ELSE m @@ (name :> TotalInsert(item))

RateInsert(item) ==
    [cluster_name |-> item.cluster_name, quantity |-> item.quantity, sku |-> item.sku,
     group_name |-> item.group_name, total_price_cents |-> item.total_price_cents,
     unit |-> item.unit, unit_price_dollars |-> item.unit_price_dollars,
     end_date |-> item.end_date]

\* variant: a newer item also replaces the unit and the unit price
RateMerge_NewerUnit(k, item) ==
    LET newer == StrGreater(item.end_date, k.end_date)
    IN  [k EXCEPT !.total_price_cents = k.total_price_cents + item.total_price_cents,
                  !.quantity = k.quantity + item.quantity,
                  !.end_date = IF newer THEN item.end_date ELSE k.end_date,
                  !.unit = IF newer THEN item.unit ELSE k.unit,
                  !.unit_price_dollars = IF newer THEN item.unit_price_dollars ELSE k.unit_price_dollars]

RateMerge(k, item) ==
    [k EXCEPT !.total_price_cents = k.total_price_cents + item.total_price_cents,
              !.quantity = k.quantity + item.quantity,
              !.end_date = IF StrGreater(item.end_date, k.end_date) THEN item.end_date ELSE k.end_date]

\* map_rate after the match on map_rate.get_mut(&name)
AddRate(m, name, item) ==
    IF name \in DOMAIN m
    THEN [m EXCEPT ![name] = RateMerge(m[name], item)]
    ELSE m @@ (name :> RateInsert(item))

\* variant: an item exactly 30 hours old is still young
Younger_Inclusive(difference) == difference <= DurationHours(FreshnessHours)

\* &difference < &chrono::Duration::hours(30)
Younger(difference) == difference < DurationHours(FreshnessHours)

-----------------------------------------------------------------------------
(* State::get_metrics: the gauges *)

Labels(value) ==
    [cluster_name |-> UnwrapOr(value.cluster_name, <<>>),
     group_name |-> UnwrapOr(value.group_name, <<>>),
     sku |-> value.sku]

\* variant: only "GB hours" is taken as an hourly unit
IsHourUnit_OnlyGB(unit) == unit = "GB hours"

IsHourUnit(unit) == unit = "GB hours" \/ unit = "server hours"

Rate(value) ==
    IF IsHourUnit(value.unit)
    THEN F64Div(F64Div(ToF64(value.total_price_cents), ToF64(value.quantity)), ToF64(100))
    ELSE F64Div(F64Div(F64Div(ToF64(value.total_price_cents), ToF64(value.quantity)), ToF64(100)), ToF64(24))

TotalGauge(value) ==
    [name |-> "atlas_billing_item_cents_total", labels |-> Labels(value),
     value |-> ToF64(value.total_price_cents)]

RateGauge(value) ==
    [name |-> "atlas_billing_item_cents_rate", labels |-> Labels(value), value |-> Rate(value)]

-----------------------------------------------------------------------------
(* Actions *)

EmptyMap == <<>>

Init ==
    /\ pc = "get"
    /\ response = <<>>
    /\ result = <<>>
    /\ line_items = <<>>
    /\ idx = 0
    /\ map_total = EmptyMap
    /\ map_rate = EmptyMap
    /\ clock = Instant(D1) + DurationHours(FreshnessHours) - 1
    /\ log = <<>>
    /\ gauges = {}

\* State::get: the request fails in transport, or is answered with a status
Get ==
    /\ pc = "get"
    /\ \/ /\ response' = <<>>
          /\ result' = <<"Hyper">>
          /\ pc' = "done"
       \/ \E status \in Statuses :
            /\ response' = <<status>>
            /\ IF StatusResult(status) = "Ok"
               THEN pc' = "body" /\ result' = result
               ELSE pc' = "done" /\ result' = <<StatusResult(status)>>
    /\ UNCHANGED <<line_items, idx, map_total, map_rate, clock, log, gauges>>

\* State::get_pending after get: the body is read and decoded; the two new
\* HashMaps of get_metrics are empty
GetPending ==
    /\ pc = "body"
    /\ \/ /\ result' = <<"Hyper">>
          /\ pc' = "done"
          /\ UNCHANGED line_items
       \/ /\ result' = <<"SerdeJson">>
          /\ pc' = "done"
          /\ UNCHANGED line_items
       \/ \E invoice \in Invoices :
            /\ line_items' = invoice
            /\ pc' = "loop"
            /\ UNCHANGED result
    /\ map_total' = EmptyMap
    /\ map_rate' = EmptyMap
    /\ UNCHANGED <<response, idx, clock, log, gauges>>

\* one iteration of `for item in data.line_items`
LoopItem ==
    /\ pc = "loop"
    /\ idx < Len(line_items)
    /\ LET item == line_items[idx + 1]
           name == Name(item)
           parsed == ParseFromRfc3339(item.end_date)
       IN  /\ map_total' = AddTotal(map_total, name, item)
           /\ IF parsed # None
              THEN \E now \in Ticks :
                     /\ now >= clock
                     /\ clock' = now
                     /\ LET difference == now - parsed[1]
                        IN  IF Younger(difference)
                            THEN /\ map_rate' = AddRate(map_rate, name, item)
                                 /\ log' = Append(log, [line |-> "Including", name |-> name,
                                                        difference |-> Some(difference)])
                            ELSE /\ map_rate' = map_rate
                                 /\ log' = Append(log, [line |-> "Skipping", name |-> name,
                                                        difference |-> Some(difference)])
              ELSE /\ clock' = clock
                   /\ map_rate' = map_rate
                   /\ log' = Append(log, [line |-> "Error", name |-> name, difference |-> None])
    /\ idx' = idx + 1
    /\ UNCHANGED <<pc, response, result, line_items, gauges>>

\* after the loop: the two loops over map_total and map_rate, and Ok(())
Publish ==
    /\ pc = "loop"
    /\ idx = Len(line_items)
    /\ gauges' = { TotalGauge(map_total[key]) : key \in DOMAIN map_total }
                 \cup { RateGauge(map_rate[key]) : key \in DOMAIN map_rate }
    /\ result' = <<"Ok">>
    /\ pc' = "done"
    /\ UNCHANGED <<response, line_items, idx, map_total, map_rate, clock, log>>

Next == Get \/ GetPending \/ LoopItem \/ Publish

Spec == Init /\ [][Next]_vars

-----------------------------------------------------------------------------
(* Properties *)

RECURSIVE SumOf(_, _)
SumOf(f, S) ==
    IF S = {} THEN 0
    ELSE LET i == CHOOSE j \in S : TRUE IN f[i] + SumOf(f, S \ {i})

Minimum(S) == CHOOSE i \in S : \A j \in S : i <= j

Quantities == [i \in 1..Len(line_items) |-> line_items[i].quantity]
Cents == [i \in 1..Len(line_items) |-> line_items[i].total_price_cents]

\* the processed line items whose key is K
Contributors(K) == { i \in 1..idx : Name(line_items[i]) = K }

\* the processed line items whose end_date parsed and was, by the logged
\* difference now - end_date, less than 30 hours old
FreshItems ==
    { i \in 1..idx :
        /\ i <= Len(log)
        /\ log[i].difference # None
        /\ log[i].difference[1] < DurationHours(FreshnessHours)
        /\ ParseFromRfc3339(line_items[i].end_date) # None }

LoopOver == pc \in {"loop", "done"} /\ idx = Len(line_items)

\* C1: once every line item is processed, for every key K of map_total the
\* quantity and the total_price_cents of the entry are the sums of those
\* fields over all the line items whose key is K, in whatever order the
\* invoice lists them
C1_TotalsAreSums ==
    LoopOver =>
        /\ \A i \in 1..idx : Name(line_items[i]) \in DOMAIN map_total
        /\ \A K \in DOMAIN map_total :
            /\ map_total[K].quantity = SumOf(Quantities, Contributors(K))
            /\ map_total[K].total_price_cents = SumOf(Cents, Contributors(K))

C1_Witness ==
    /\ pc = "done"
    /\ result = <<"Ok">>
    /\ \E K \in DOMAIN map_total :
        /\ Contributors(K) = {1, 2}
        /\ line_items[1].quantity = 10
        /\ line_items[2].quantity = 5
        /\ map_total[K].quantity = 15
        /\ map_total[K].total_price_cents = 2900

\* C2: a line item contributes to map_rate exactly when its end_date parses
\* as RFC 3339 and now - end_date is strictly less than 30 hours; an item
\* whose end_date does not parse is still summed into map_total, is never
\* summed into map_rate and does not end the pass
C2_RatesAreFreshItems ==
    /\ pc \in {"loop", "done"} => Len(log) = idx
    /\ \A i \in 1..idx : Name(line_items[i]) \in DOMAIN map_total
    /\ LET fresh == FreshItems
       IN  /\ \A K \in DOMAIN map_total :
                /\ map_total[K].total_price_cents = SumOf(Cents, Contributors(K))
                /\ K \in DOMAIN map_rate <=> Contributors(K) \cap fresh # {}
           /\ \A K \in DOMAIN map_rate :
                /\ map_rate[K].quantity = SumOf(Quantities, Contributors(K) \cap fresh)
                /\ map_rate[K].total_price_cents = SumOf(Cents, Contributors(K) \cap fresh)
    /\ pc = "loop" => result = <<>>
    /\ (pc = "done" /\ response = <<200>> /\ result \notin {<<"Hyper">>, <<"SerdeJson">>})
         => (result = <<"Ok">> /\ idx = Len(line_items))

\* an item exactly 30 hours old and an item with an unparsable end_date, both
\* in map_total and neither in map_rate, beside one fresh item
C2_Witness ==
    /\ pc = "done"
    /\ result = <<"Ok">>
    /\ idx = 2
    /\ log[1].difference = Some(DurationHours(FreshnessHours))
    /\ Name(line_items[1]) \in DOMAIN map_total
    /\ Name(line_items[1]) \notin DOMAIN map_rate
    /\ ParseFromRfc3339(line_items[2].end_date) = None
    /\ Name(line_items[2]) \in DOMAIN map_total
    /\ Name(line_items[2]) \notin DOMAIN map_rate

\* C3: at every point of the pass every key of map_rate is a key of map_total
C3_RatesWithinTotals == DOMAIN map_rate \subseteq DOMAIN map_total

C3_Witness ==
    /\ pc = "loop"
    /\ idx = 2
    /\ DOMAIN map_rate # {}
    /\ DOMAIN map_rate # DOMAIN map_total

\* C4: no billed-rate gauge is given a non-finite value, also when the
\* accumulated quantity of a map_rate entry is zero
C4_RateGaugesFinite ==
    \A g \in gauges : g.name = "atlas_billing_item_cents_rate" => g.value.kind = "finite"

\* C5: within one pass every line item is tested for freshness against the
\* same instant: two processed line items with the same end_date are both
\* included in map_rate or both left out
C5_SameInstant ==
    \A i, j \in 1..idx :
        (i <= Len(log) /\ j <= Len(log) /\ line_items[i].end_date = line_items[j].end_date)
            => (log[i].line = "Including" <=> log[j].line = "Including")

\* C6: a response with status 404, 403 or 401 gives NotFound, Forbidden or
\* Unauthorized, any other status but 200 gives UnknownCode; in each of these
\* cases no line item is processed and no gauge is recorded, and only status
\* 200 lets the aggregation run
C6_StatusClassification ==
    /\ (response # <<>> /\ response # <<200>>) =>
          /\ pc = "done"
          /\ result = <<CASE response = <<404>> -> "NotFound"
                          [] response = <<403>> -> "Forbidden"
                          [] response = <<401>> -> "Unauthorized"
                          [] OTHER -> "UnknownCode">>
          /\ idx = 0
          /\ line_items = <<>>
          /\ DOMAIN map_total = {}
          /\ DOMAIN map_rate = {}
          /\ log = <<>>
          /\ gauges = {}
    /\ (pc \in {"body", "loop"} \/ idx > 0 \/ gauges # {} \/ result = <<"Ok">>) => response = <<200>>

C6_Witness ==
    /\ pc = "done"
    /\ response = <<403>>
    /\ result = <<"Forbidden">>
    /\ gauges = {}

SameDescription(entry, item) ==
    /\ entry.unit = item.unit
    /\ entry.sku = item.sku
    /\ entry.cluster_name = item.cluster_name
    /\ entry.group_name = item.group_name
    /\ entry.unit_price_dollars = item.unit_price_dollars

\* C7: in map_total and in map_rate, the unit, sku, cluster_name and
\* group_name of an entry (and every field but quantity, total_price_cents
\* and end_date) are those of the first line item inserted for the key in
\* that map, however many items were merged into it
C7_FirstItemDescribes ==
    /\ \A K \in DOMAIN map_total :
          Contributors(K) # {}
          /\ SameDescription(map_total[K], line_items[Minimum(Contributors(K))])
    /\ \A K \in DOMAIN map_rate :
          LET inserted == Contributors(K) \cap FreshItems
          IN  inserted # {} /\ SameDescription(map_rate[K], line_items[Minimum(inserted)])

\* a later, newer item with another unit, cluster_name, group_name and sku
\* was merged into an entry of each map
C7_Witness ==
    /\ idx = 2
    /\ \E K \in DOMAIN map_rate :
        /\ Contributors(K) \cap FreshItems = {1, 2}
        /\ line_items[1].unit # line_items[2].unit
        /\ line_items[1].sku # line_items[2].sku
        /\ line_items[1].cluster_name # line_items[2].cluster_name
        /\ line_items[1].group_name # line_items[2].group_name
        /\ StrGreater(line_items[2].end_date, line_items[1].end_date)
        /\ map_rate[K].end_date = line_items[2].end_date
        /\ map_total[K].end_date = line_items[2].end_date

\* C8: once every line item is processed, the end_date of every entry of
\* map_total is the greatest, in the lexicographic order of strings, of the
\* end_date strings of the line items whose key is the entry's
C8_EndDateIsMaximum ==
    LoopOver =>
        \A K \in DOMAIN map_total :
            /\ \E i \in Contributors(K) : map_total[K].end_date = line_items[i].end_date
            /\ \A i \in Contributors(K) : ~ StrLess(map_total[K].end_date, line_items[i].end_date)

\* the greater string came first and is kept, though the second item ends
\* an hour later
C8_Witness ==
    /\ pc = "done"
    /\ result = <<"Ok">>
    /\ \E K \in DOMAIN map_total :
        /\ Contributors(K) = {1, 2}
        /\ line_items[1].end_date = D1
        /\ line_items[2].end_date = D2
        /\ Instant(D2) > Instant(D1)
        /\ map_total[K].end_date = D1

ExpectedRate(value) ==
    IF value.unit \in {"GB hours", "server hours"}
    THEN Finite(value.total_price_cents, value.quantity * 100)
    ELSE Finite(value.total_price_cents, value.quantity * 100 * 24)

\* C9: for every entry of map_rate with a non-zero quantity the billed-rate
\* gauge gets total_price_cents / quantity / 100 when the unit is "GB hours"
\* or "server hours", and total_price_cents / quantity / 100 / 24 otherwise
C9_RateValues ==
    (pc = "done" /\ result = <<"Ok">>) =>
        /\ \A K \in DOMAIN map_rate :
              map_rate[K].quantity # 0 =>
                  [name |-> "atlas_billing_item_cents_rate", labels |-> Labels(map_rate[K]),
                   value |-> ExpectedRate(map_rate[K])] \in gauges
        /\ \A g \in gauges :
              g.name = "atlas_billing_item_cents_rate" =>
                  \E K \in DOMAIN map_rate :
                      /\ g.labels = Labels(map_rate[K])
                      /\ map_rate[K].quantity # 0 => g.value = ExpectedRate(map_rate[K])

\* 2400 cents over a quantity of 10: 2.4 (12/5) for "GB hours" and 0.1 (1/10)
\* for "daily"
C9_Witness ==
    /\ pc = "done"
    /\ result = <<"Ok">>
    /\ \E K1, K2 \in DOMAIN map_rate :
        /\ map_rate[K1].unit = "GB hours"
        /\ map_rate[K1].total_price_cents = 2400
        /\ map_rate[K1].quantity = 10
        /\ [name |-> "atlas_billing_item_cents_rate", labels |-> Labels(map_rate[K1]),
            value |-> [kind |-> "finite", num |-> 12, den |-> 5]] \in gauges
        /\ map_rate[K2].unit = "daily"
        /\ map_rate[K2].total_price_cents = 2400
        /\ map_rate[K2].quantity = 10
        /\ [name |-> "atlas_billing_item_cents_rate", labels |-> Labels(map_rate[K2]),
            value |-> [kind |-> "finite", num |-> 1, den |-> 10]] \in gauges

\* C10: two line items are accumulated into the same entry only if they have
\* the same cluster_name and the same sku
C10_KeyIsInjective ==
    \A i, j \in 1..idx :
        Name(line_items[i]) = Name(line_items[j])
            => /\ line_items[i].cluster_name = line_items[j].cluster_name
               /\ line_items[i].sku = line_items[j].sku

====
